---- MODULE Spec2Model ----
(***************************************************************************)
(* Reference-counted SharedPtr / WeakPtr of deca-memory-utils.             *)
(*                                                                         *)
(* The repository holds two implementations of the same classes:           *)
(*   "SP"  src/src/shared-ptr.ts                                           *)
(*   "P1"  src/unnamed/part_001                                            *)
(* A behaviour runs one of them (impl, fixed by Init).  Handles and        *)
(* control blocks are numbered in order of construction; 0 is the null     *)
(* controlBlock reference.  Pure reads (get, isValid, useCount, expired)   *)
(* are operators over the state; every mutating method is an action.       *)
(* UniquePtr (part_001 only) is modelled next to them: up[u] is the value   *)
(* field of the u-th instance constructed.  locking is the WeakPtr whose     *)
(* lock() has passed its check and not yet incremented (0: none), used only *)
(* where lock() is taken as two steps.  dead is the set of handles on which *)
(* reset() without a value or destroy() has been called; it is recorded     *)
(* only in behaviours that start with tracking = TRUE.                      *)
(***************************************************************************)
EXTENDS Integers, FiniteSets, Sequences, TLC

VARIABLES impl, nsp, sp, nwp, wp, nblk, blocks, ret, nup, up, locking,
          tracking, dead

vars == <<impl, nsp, sp, nwp, wp, nblk, blocks, ret, nup, up, locking,
          tracking, dead>>

(* ---- bounds ---- *)
MaxHandles == 3
MaxWeak == 1
MaxBlocks == 2
MaxUnderflow == 1
MaxUnique == 4
MaxCalls == 2

Impls == {"SP", "P1"}
Values == {"v1", "v2"}
NULL == "null"
NoThrow == {"none", "ok"}

Handles == 1..MaxHandles
Weaks == 1..MaxWeak
Blocks == 1..MaxBlocks
Uniques == 1..MaxUnique

(* ---- ControlBlock: value, referenceCount, weakCount, destructor.  ----- *)
(* calls / arg record the destructor's invocations and its last argument.  *)
NoBlock ==
  [value |-> NULL, referenceCount |-> 0, weakCount |-> 0,
   destructor |-> "none", calls |-> 0, arg |-> NULL]

SP_ControlBlock(value, destructor) ==
  [value |-> value, referenceCount |-> 1, weakCount |-> 0,
   destructor |-> destructor, calls |-> 0, arg |-> NULL]

P1_ControlBlock(value, destructor) ==
  [value |-> value, referenceCount |-> 1, weakCount |-> 0,
   destructor |-> destructor, calls |-> 0, arg |-> NULL]

SP_incrementRef(cb) == [cb EXCEPT !.referenceCount = @ + 1]

P1_incrementRef(cb) == [cb EXCEPT !.referenceCount = @ + 1]

(* decrementRef: the block after the call, the returned boolean, and       *)
(* whether the destructor raised out of the call.                          *)
SP_decrementRef(cb) ==
  LET n == cb.referenceCount - 1
      fired == n = 0 /\ cb.destructor # "none"
  IN [cb |-> [cb EXCEPT !.referenceCount = n,
                        !.calls = IF fired THEN @ + 1 ELSE @,
                        !.arg = IF fired THEN cb.value ELSE @],
      ret |-> (n = 0) /\ ~(fired /\ cb.destructor = "throws"),
      threw |-> fired /\ cb.destructor = "throws"]

P1_decrementRef(cb) ==
  LET n == cb.referenceCount - 1
      fired == n = 0 /\ cb.destructor # "none"
  IN [cb |-> [cb EXCEPT !.referenceCount = n,
                        !.calls = IF fired THEN @ + 1 ELSE @,
                        !.arg = IF fired THEN cb.value ELSE @],
      ret |-> (n = 0) /\ ~(fired /\ cb.destructor = "throws"),
      threw |-> fired /\ cb.destructor = "throws"]

SP_getRefCount(cb) == cb.referenceCount

P1_getRefCount(cb) == cb.referenceCount

SP_incrementWeak(cb) == [cb EXCEPT !.weakCount = @ + 1]

P1_incrementWeak(cb) == [cb EXCEPT !.weakCount = @ + 1]

SP_decrementWeak(cb) == [cb EXCEPT !.weakCount = @ - 1]

P1_decrementWeak(cb) == [cb EXCEPT !.weakCount = @ - 1]

SP_getWeakCount(cb) == cb.weakCount

P1_getWeakCount(cb) == cb.weakCount

(* ---- SharedPtr: pure reads ---- *)
SP_get(h) == IF sp[h] # 0 THEN blocks[sp[h]].value ELSE NULL

P1_get(h) == IF sp[h] # 0 THEN blocks[sp[h]].value ELSE NULL

SP_isValid(h) == sp[h] # 0

P1_isValid(h) == sp[h] # 0

SP_useCount(h) == IF sp[h] # 0 THEN SP_getRefCount(blocks[sp[h]]) ELSE 0

P1_useCount(h) == IF sp[h] # 0 THEN P1_getRefCount(blocks[sp[h]]) ELSE 0

SP_getControlBlock(h) == sp[h]

P1_getControlBlock(h) == sp[h]

(* ---- WeakPtr: pure reads ---- *)
(* isValid() that only looks at the attachment, not at the count *)
SP_WeakIsValid_IgnoresCount(w) == wp[w] # 0

SP_WeakIsValid(w) == wp[w] # 0 /\ SP_getRefCount(blocks[wp[w]]) > 0

SP_WeakGet(w) == IF SP_WeakIsValid(w) THEN blocks[wp[w]].value ELSE NULL

SP_expired(w) == ~SP_WeakIsValid(w)

P1_expired(w) == wp[w] = 0 \/ P1_getRefCount(blocks[wp[w]]) = 0

(* ---- what the latest call gave its caller: the SharedPtr returned by  -- *)
(* lock() (h; 0 is null), the value returned by release() (v), and whether *)
(* the call raised.  Every other call returns nothing.                     *)
Returned(h, v, threw) == [h |-> h, v |-> v, threw |-> threw]

Void == Returned(0, NULL, FALSE)

(* the model's bound on how far a count may run below zero *)
CanDecrement(b) == b # 0 => blocks[b].referenceCount > -MaxUnderflow

Init ==
  /\ impl \in Impls
  /\ nsp = 0
  /\ sp = [h \in Handles |-> 0]
  /\ nwp = 0
  /\ wp = [w \in Weaks |-> 0]
  /\ nblk = 0
  /\ blocks = [b \in Blocks |-> NoBlock]
  /\ ret = Void
  /\ nup = 0
  /\ up = [u \in Uniques |-> NULL]
  /\ locking = 0
  /\ tracking = FALSE
  /\ dead = {}

(* ======================= src/src/shared-ptr.ts ========================== *)

(* new SharedPtr() *)
SP_constructorEmpty ==
  /\ impl = "SP" /\ nsp < MaxHandles
  /\ nsp' = nsp + 1
  /\ ret' = Void
  /\ UNCHANGED <<tracking, dead, locking, nup, up, impl, sp, nwp, wp, nblk, blocks>>

(* new SharedPtr(value, destructor) / SharedPtr.make(value, destructor) *)
SP_make(value, destructor) ==
  /\ impl = "SP" /\ nsp < MaxHandles /\ nblk < MaxBlocks
  /\ nsp' = nsp + 1
  /\ nblk' = nblk + 1
  /\ blocks' = [blocks EXCEPT ![nblk + 1] = SP_ControlBlock(value, destructor)]
  /\ sp' = [sp EXCEPT ![nsp + 1] = nblk + 1]
  /\ ret' = Void
  /\ UNCHANGED <<tracking, dead, locking, nup, up, impl, nwp, wp>>

SP_fromSharedPtr(other) ==
  /\ impl = "SP" /\ other \in 1..nsp /\ nsp < MaxHandles
  /\ nsp' = nsp + 1
  /\ IF sp[other] # 0
       THEN /\ sp' = [sp EXCEPT ![nsp + 1] = sp[other]]
            /\ blocks' = [blocks EXCEPT ![sp[other]] = SP_incrementRef(@)]
       ELSE UNCHANGED <<sp, blocks>>
  /\ ret' = Void
  /\ UNCHANGED <<tracking, dead, locking, nup, up, impl, nwp, wp, nblk>>

(* reset(value?, destructor?): value = NULL stands for "no value supplied" *)
(* reset(value) that replaces the block without decrementRef() on the old one *)
SP_reset_NoDecrement(h, value, destructor) ==
  /\ impl = "SP" /\ h \in 1..nsp /\ CanDecrement(sp[h])
  /\ value # NULL => nblk < MaxBlocks
  /\ IF value # NULL
       THEN /\ blocks' = [blocks EXCEPT ![nblk + 1] = SP_ControlBlock(value, destructor)]
            /\ sp' = [sp EXCEPT ![h] = nblk + 1]
            /\ nblk' = nblk + 1
            /\ ret' = Void
       ELSE LET r == IF sp[h] # 0 THEN SP_decrementRef(blocks[sp[h]])
                                  ELSE [cb |-> NoBlock, ret |-> FALSE, threw |-> FALSE]
            IN /\ blocks' = IF sp[h] # 0 THEN [blocks EXCEPT ![sp[h]] = r.cb] ELSE blocks
               /\ sp' = IF sp[h] # 0 /\ ~r.threw THEN [sp EXCEPT ![h] = 0] ELSE sp
               /\ nblk' = nblk
               /\ ret' = Returned(0, NULL, r.threw)
  /\ dead' = IF tracking /\ value = NULL THEN dead \cup {h} ELSE dead
  /\ UNCHANGED <<tracking, locking, nup, up, impl, nsp, nwp, wp>>

SP_reset(h, value, destructor) ==
  /\ impl = "SP" /\ h \in 1..nsp /\ CanDecrement(sp[h])
  /\ value # NULL => nblk < MaxBlocks
  /\ LET r == IF sp[h] # 0 THEN SP_decrementRef(blocks[sp[h]])
                           ELSE [cb |-> NoBlock, ret |-> FALSE, threw |-> FALSE]
         blocks1 == IF sp[h] # 0 THEN [blocks EXCEPT ![sp[h]] = r.cb] ELSE blocks
         sp1 == IF sp[h] # 0 /\ ~r.threw THEN [sp EXCEPT ![h] = 0] ELSE sp
     IN IF ~r.threw /\ value # NULL
          THEN /\ blocks' = [blocks1 EXCEPT ![nblk + 1] = SP_ControlBlock(value, destructor)]
               /\ sp' = [sp1 EXCEPT ![h] = nblk + 1]
               /\ nblk' = nblk + 1
               /\ ret' = Void
          ELSE /\ blocks' = blocks1
               /\ sp' = sp1
               /\ nblk' = nblk
               /\ ret' = Returned(0, NULL, r.threw)
  /\ dead' = IF tracking /\ value = NULL THEN dead \cup {h} ELSE dead
  /\ UNCHANGED <<tracking, locking, nup, up, impl, nsp, nwp, wp>>

SP_swap(h, other) ==
  /\ impl = "SP" /\ h \in 1..nsp /\ other \in 1..nsp
  /\ LET temp == sp[h]
         sp1 == [sp EXCEPT ![h] = sp[other]]
     IN sp' = [sp1 EXCEPT ![other] = temp]
  /\ ret' = Void
  /\ UNCHANGED <<tracking, dead, locking, nup, up, impl, nsp, nwp, wp, nblk, blocks>>

(* release() that reads controlBlock.value without the null check: a        *)
(* TypeError on an empty handle                                             *)
SP_release_NoNullCheck(h) ==
  /\ impl = "SP" /\ h \in 1..nsp /\ CanDecrement(sp[h])
  /\ IF sp[h] = 0
       THEN /\ ret' = Returned(0, NULL, TRUE)
            /\ UNCHANGED <<sp, blocks>>
       ELSE LET value == blocks[sp[h]].value
                r == SP_decrementRef(blocks[sp[h]])
            IN /\ blocks' = [blocks EXCEPT ![sp[h]] = r.cb]
               /\ sp' = IF r.threw THEN sp ELSE [sp EXCEPT ![h] = 0]
               /\ ret' = Returned(0, IF r.threw THEN NULL ELSE value, r.threw)
  /\ UNCHANGED <<tracking, dead, locking, nup, up, impl, nsp, nwp, wp, nblk>>

(* release() that lets go of the block without decrementRef() *)
SP_release_NoDecrement(h) ==
  /\ impl = "SP" /\ h \in 1..nsp
  /\ IF sp[h] = 0
       THEN /\ ret' = Void
            /\ UNCHANGED sp
       ELSE LET value == blocks[sp[h]].value
            IN /\ sp' = [sp EXCEPT ![h] = 0]
               /\ ret' = Returned(0, value, FALSE)
  /\ UNCHANGED <<tracking, dead, locking, nup, up, impl, nsp, nwp, wp, nblk, blocks>>

SP_release(h) ==
  /\ impl = "SP" /\ h \in 1..nsp /\ CanDecrement(sp[h])
  /\ IF sp[h] = 0
       THEN /\ ret' = Void
            /\ UNCHANGED <<sp, blocks>>
       ELSE LET value == blocks[sp[h]].value
                r == SP_decrementRef(blocks[sp[h]])
            IN /\ blocks' = [blocks EXCEPT ![sp[h]] = r.cb]
               /\ sp' = IF r.threw THEN sp ELSE [sp EXCEPT ![h] = 0]
               /\ ret' = Returned(0, IF r.threw THEN NULL ELSE value, r.threw)
  /\ UNCHANGED <<tracking, dead, locking, nup, up, impl, nsp, nwp, wp, nblk>>

SP_destroy(h) ==
  /\ impl = "SP" /\ h \in 1..nsp /\ CanDecrement(sp[h])
  /\ IF sp[h] # 0
       THEN LET r == SP_decrementRef(blocks[sp[h]])
            IN /\ blocks' = [blocks EXCEPT ![sp[h]] = r.cb]
               /\ sp' = IF r.threw THEN sp ELSE [sp EXCEPT ![h] = 0]
               /\ ret' = Returned(0, NULL, r.threw)
       ELSE /\ ret' = Void
            /\ UNCHANGED <<sp, blocks>>
  /\ dead' = IF tracking THEN dead \cup {h} ELSE dead
  /\ UNCHANGED <<tracking, locking, nup, up, impl, nsp, nwp, wp, nblk>>

(* new WeakPtr(ptr) *)
SP_WeakPtr(ptr) ==
  /\ impl = "SP" /\ ptr \in 1..nsp /\ nwp < MaxWeak
  /\ nwp' = nwp + 1
  /\ wp' = [wp EXCEPT ![nwp + 1] = SP_getControlBlock(ptr)]
  /\ blocks' = IF SP_getControlBlock(ptr) # 0
                 THEN [blocks EXCEPT ![sp[ptr]] = SP_incrementWeak(@)]
                 ELSE blocks
  /\ ret' = Void
  /\ UNCHANGED <<tracking, dead, locking, nup, up, impl, nsp, sp, nblk>>

(* reset() that decrements weakCount and keeps the reference *)
SP_WeakReset_KeepsReference(w) ==
  /\ impl = "SP" /\ w \in 1..nwp
  /\ IF wp[w] # 0
       THEN /\ blocks' = [blocks EXCEPT ![wp[w]] = SP_decrementWeak(@)]
            /\ UNCHANGED wp
       ELSE UNCHANGED <<wp, blocks>>
  /\ ret' = Void
  /\ UNCHANGED <<tracking, dead, locking, nup, up, impl, nsp, sp, nwp, nblk>>

SP_WeakReset(w) ==
  /\ impl = "SP" /\ w \in 1..nwp
  /\ IF wp[w] # 0
       THEN /\ blocks' = [blocks EXCEPT ![wp[w]] = SP_decrementWeak(@)]
            /\ wp' = [wp EXCEPT ![w] = 0]
       ELSE UNCHANGED <<wp, blocks>>
  /\ ret' = Void
  /\ UNCHANGED <<tracking, dead, locking, nup, up, impl, nsp, sp, nwp, nblk>>

(* WeakPtr.destroy() calls reset() *)
SP_WeakDestroy(w) ==
  /\ impl = "SP" /\ w \in 1..nwp
  /\ IF wp[w] # 0
       THEN /\ blocks' = [blocks EXCEPT ![wp[w]] = SP_decrementWeak(@)]
            /\ wp' = [wp EXCEPT ![w] = 0]
       ELSE UNCHANGED <<wp, blocks>>
  /\ ret' = Void
  /\ UNCHANGED <<tracking, dead, locking, nup, up, impl, nsp, sp, nwp, nblk>>

(* lock(): on success the new SharedPtr comes from fromControlBlock *)
(* lock() whose fromControlBlock() counts the new handle a second time *)
SP_lock_DoubleIncrement(w) ==
  /\ impl = "SP" /\ w \in 1..nwp
  /\ IF SP_WeakIsValid(w) /\ wp[w] # 0
       THEN /\ nsp < MaxHandles
            /\ blocks' = [blocks EXCEPT ![wp[w]] = SP_incrementRef(SP_incrementRef(@))]
            /\ nsp' = nsp + 1
            /\ sp' = [sp EXCEPT ![nsp + 1] = wp[w]]
            /\ ret' = Returned(nsp + 1, NULL, FALSE)
       ELSE /\ ret' = Void
            /\ UNCHANGED <<nsp, sp, blocks>>
  /\ UNCHANGED <<tracking, dead, locking, nup, up, impl, nwp, wp, nblk>>

SP_lock(w) ==
  /\ impl = "SP" /\ w \in 1..nwp
  /\ IF SP_WeakIsValid(w) /\ wp[w] # 0
       THEN /\ nsp < MaxHandles
            /\ blocks' = [blocks EXCEPT ![wp[w]] = SP_incrementRef(@)]
            /\ nsp' = nsp + 1
            /\ sp' = [sp EXCEPT ![nsp + 1] = wp[w]]
            /\ ret' = Returned(nsp + 1, NULL, FALSE)
       ELSE /\ ret' = Void
            /\ UNCHANGED <<nsp, sp, blocks>>
  /\ UNCHANGED <<tracking, dead, locking, nup, up, impl, nwp, wp, nblk>>

(* ========================= src/unnamed/part_001 ========================= *)

(* new SharedPtr() *)
P1_constructorEmpty ==
  /\ impl = "P1" /\ nsp < MaxHandles
  /\ nsp' = nsp + 1
  /\ ret' = Void
  /\ UNCHANGED <<tracking, dead, locking, nup, up, impl, sp, nwp, wp, nblk, blocks>>

(* new SharedPtr(value, destructor) / SharedPtr.make(value, destructor) *)
P1_make(value, destructor) ==
  /\ impl = "P1" /\ nsp < MaxHandles /\ nblk < MaxBlocks
  /\ nsp' = nsp + 1
  /\ nblk' = nblk + 1
  /\ blocks' = [blocks EXCEPT ![nblk + 1] = P1_ControlBlock(value, destructor)]
  /\ sp' = [sp EXCEPT ![nsp + 1] = nblk + 1]
  /\ ret' = Void
  /\ UNCHANGED <<tracking, dead, locking, nup, up, impl, nwp, wp>>

P1_fromSharedPtr(other) ==
  /\ impl = "P1" /\ other \in 1..nsp /\ nsp < MaxHandles
  /\ nsp' = nsp + 1
  /\ LET sp1 == [sp EXCEPT ![nsp + 1] = sp[other]]
     IN /\ sp' = sp1
        /\ blocks' = IF sp1[nsp + 1] # 0
                       THEN [blocks EXCEPT ![sp1[nsp + 1]] = P1_incrementRef(@)]
                       ELSE blocks
  /\ ret' = Void
  /\ UNCHANGED <<tracking, dead, locking, nup, up, impl, nwp, wp, nblk>>

(* reset(value?, destructor?): the handle lets go of its block only when   *)
(* decrementRef() returns true                                             *)
P1_reset(h, value, destructor) ==
  /\ impl = "P1" /\ h \in 1..nsp /\ CanDecrement(sp[h])
  /\ value # NULL => nblk < MaxBlocks
  /\ LET r == IF sp[h] # 0 THEN P1_decrementRef(blocks[sp[h]])
                           ELSE [cb |-> NoBlock, ret |-> FALSE, threw |-> FALSE]
         blocks1 == IF sp[h] # 0 THEN [blocks EXCEPT ![sp[h]] = r.cb] ELSE blocks
         sp1 == IF sp[h] # 0 /\ ~r.threw /\ r.ret THEN [sp EXCEPT ![h] = 0] ELSE sp
     IN IF ~r.threw /\ value # NULL
          THEN /\ blocks' = [blocks1 EXCEPT ![nblk + 1] = P1_ControlBlock(value, destructor)]
               /\ sp' = [sp1 EXCEPT ![h] = nblk + 1]
               /\ nblk' = nblk + 1
               /\ ret' = Void
          ELSE /\ blocks' = blocks1
               /\ sp' = sp1
               /\ nblk' = nblk
               /\ ret' = Returned(0, NULL, r.threw)
  /\ dead' = IF tracking /\ value = NULL THEN dead \cup {h} ELSE dead
  /\ UNCHANGED <<tracking, locking, nup, up, impl, nsp, nwp, wp>>

(* swap: temp = this.cb; other.setControlBlock(this.cb); this.cb = temp *)
P1_swap(h, other) ==
  /\ impl = "P1" /\ h \in 1..nsp /\ other \in 1..nsp
  /\ LET temp == sp[h]
         sp1 == [sp EXCEPT ![other] = sp[h]]
     IN sp' = [sp1 EXCEPT ![h] = temp]
  /\ ret' = Void
  /\ UNCHANGED <<tracking, dead, locking, nup, up, impl, nsp, nwp, wp, nblk, blocks>>

(* release() that also gives up its share of the count, as reset() does *)
P1_release_Decrements(h) ==
  /\ impl = "P1" /\ h \in 1..nsp /\ CanDecrement(sp[h])
  /\ IF sp[h] = 0
       THEN /\ ret' = Void
            /\ UNCHANGED <<sp, blocks>>
       ELSE LET value == blocks[sp[h]].value
                r == P1_decrementRef(blocks[sp[h]])
            IN /\ blocks' = [blocks EXCEPT ![sp[h]] = r.cb]
               /\ sp' = [sp EXCEPT ![h] = 0]
               /\ ret' = Returned(0, value, FALSE)
  /\ UNCHANGED <<tracking, dead, locking, nup, up, impl, nsp, nwp, wp, nblk>>

P1_release(h) ==
  /\ impl = "P1" /\ h \in 1..nsp
  /\ IF sp[h] = 0
       THEN /\ ret' = Void
            /\ UNCHANGED sp
       ELSE LET value == blocks[sp[h]].value
            IN /\ sp' = [sp EXCEPT ![h] = 0]
               /\ ret' = Returned(0, value, FALSE)
  /\ UNCHANGED <<tracking, dead, locking, nup, up, impl, nsp, nwp, wp, nblk, blocks>>

P1_destroy(h) ==
  /\ impl = "P1" /\ h \in 1..nsp /\ CanDecrement(sp[h])
  /\ IF sp[h] # 0
       THEN LET r == P1_decrementRef(blocks[sp[h]])
            IN /\ blocks' = [blocks EXCEPT ![sp[h]] = r.cb]
               /\ sp' = IF ~r.threw /\ r.ret THEN [sp EXCEPT ![h] = 0] ELSE sp
               /\ ret' = Returned(0, NULL, r.threw)
       ELSE /\ ret' = Void
            /\ UNCHANGED <<sp, blocks>>
  /\ dead' = IF tracking THEN dead \cup {h} ELSE dead
  /\ UNCHANGED <<tracking, locking, nup, up, impl, nsp, nwp, wp, nblk>>

(* new WeakPtr(shared?): shared = 0 stands for "no SharedPtr supplied" *)
P1_WeakPtr(shared) ==
  /\ impl = "P1" /\ shared \in 0..nsp /\ nwp < MaxWeak
  /\ nwp' = nwp + 1
  /\ LET cb == IF shared # 0 THEN P1_getControlBlock(shared) ELSE 0
     IN /\ wp' = [wp EXCEPT ![nwp + 1] = cb]
        /\ blocks' = IF cb # 0 THEN [blocks EXCEPT ![cb] = P1_incrementWeak(@)]
                               ELSE blocks
  /\ ret' = Void
  /\ UNCHANGED <<tracking, dead, locking, nup, up, impl, nsp, sp, nblk>>

(* reset() that clears the reference without decrementWeak() *)
P1_WeakReset_NoDecrement(w) ==
  /\ impl = "P1" /\ w \in 1..nwp
  /\ wp' = [wp EXCEPT ![w] = 0]
  /\ ret' = Void
  /\ UNCHANGED <<tracking, dead, locking, nup, up, impl, nsp, sp, nwp, nblk, blocks>>

P1_WeakReset(w) ==
  /\ impl = "P1" /\ w \in 1..nwp
  /\ IF wp[w] # 0
       THEN /\ blocks' = [blocks EXCEPT ![wp[w]] = P1_decrementWeak(@)]
            /\ wp' = [wp EXCEPT ![w] = 0]
       ELSE UNCHANGED <<wp, blocks>>
  /\ ret' = Void
  /\ UNCHANGED <<tracking, dead, locking, nup, up, impl, nsp, sp, nwp, nblk>>

(* lock() that looks only at the controlBlock, not at its count *)
P1_lock_IgnoresCount(w) ==
  /\ impl = "P1" /\ w \in 1..nwp
  /\ IF wp[w] = 0
       THEN /\ ret' = Void
            /\ UNCHANGED <<nsp, sp, blocks>>
       ELSE /\ nsp < MaxHandles
            /\ nsp' = nsp + 1
            /\ sp' = [sp EXCEPT ![nsp + 1] = wp[w]]
            /\ blocks' = [blocks EXCEPT ![wp[w]] = P1_incrementRef(@)]
            /\ ret' = Returned(nsp + 1, NULL, FALSE)
  /\ UNCHANGED <<tracking, dead, locking, nup, up, impl, nwp, wp, nblk>>

(* lock(): the new handle is an InternalSharedPtr set from the block *)
P1_lock(w) ==
  /\ impl = "P1" /\ w \in 1..nwp
  /\ IF wp[w] = 0 \/ P1_getRefCount(blocks[wp[w]]) = 0
       THEN /\ ret' = Void
            /\ UNCHANGED <<nsp, sp, blocks>>
       ELSE /\ nsp < MaxHandles
            /\ nsp' = nsp + 1
            /\ sp' = [sp EXCEPT ![nsp + 1] = wp[w]]
            /\ blocks' = [blocks EXCEPT ![wp[w]] = P1_incrementRef(@)]
            /\ ret' = Returned(nsp + 1, NULL, FALSE)
  /\ UNCHANGED <<tracking, dead, locking, nup, up, impl, nwp, wp, nblk>>

(* ============================ specifications ============================ *)

(* ---- WeakPtr.lock() as two steps: the check, then the increment ---- *)

SP_lockCheck(w) ==
  /\ impl = "SP" /\ w \in 1..nwp /\ locking = 0
  /\ IF SP_WeakIsValid(w) /\ wp[w] # 0
       THEN /\ locking' = w
            /\ UNCHANGED ret
       ELSE /\ locking' = 0
            /\ ret' = Void
  /\ UNCHANGED <<tracking, dead, nup, up, impl, nsp, sp, nwp, wp, nblk, blocks>>

(* the second step without incrementRef() *)
SP_lockIncrement_NoIncrement(w) ==
  /\ impl = "SP" /\ w \in 1..nwp /\ locking = w
  /\ locking' = 0
  /\ IF wp[w] = 0
       THEN /\ ret' = Returned(0, NULL, TRUE)
            /\ UNCHANGED <<nsp, sp, blocks>>
       ELSE /\ nsp < MaxHandles
            /\ nsp' = nsp + 1
            /\ sp' = [sp EXCEPT ![nsp + 1] = wp[w]]
            /\ ret' = Returned(nsp + 1, NULL, FALSE)
            /\ UNCHANGED blocks
  /\ UNCHANGED <<tracking, dead, nup, up, impl, nwp, wp, nblk>>

(* this.controlBlock.incrementRef() on a reference cleared meanwhile is a   *)
(* TypeError                                                                *)
SP_lockIncrement(w) ==
  /\ impl = "SP" /\ w \in 1..nwp /\ locking = w
  /\ locking' = 0
  /\ IF wp[w] = 0
       THEN /\ ret' = Returned(0, NULL, TRUE)
            /\ UNCHANGED <<nsp, sp, blocks>>
       ELSE /\ nsp < MaxHandles
            /\ blocks' = [blocks EXCEPT ![wp[w]] = SP_incrementRef(@)]
            /\ nsp' = nsp + 1
            /\ sp' = [sp EXCEPT ![nsp + 1] = wp[w]]
            /\ ret' = Returned(nsp + 1, NULL, FALSE)
  /\ UNCHANGED <<tracking, dead, nup, up, impl, nwp, wp, nblk>>

P1_lockCheck(w) ==
  /\ impl = "P1" /\ w \in 1..nwp /\ locking = 0
  /\ IF wp[w] = 0 \/ P1_getRefCount(blocks[wp[w]]) = 0
       THEN /\ locking' = 0
            /\ ret' = Void
       ELSE /\ locking' = w
            /\ UNCHANGED ret
  /\ UNCHANGED <<tracking, dead, nup, up, impl, nsp, sp, nwp, wp, nblk, blocks>>

P1_lockIncrement(w) ==
  /\ impl = "P1" /\ w \in 1..nwp /\ locking = w
  /\ locking' = 0
  /\ IF wp[w] = 0
       THEN /\ ret' = Returned(0, NULL, TRUE)
            /\ UNCHANGED <<nsp, sp, blocks>>
       ELSE /\ nsp < MaxHandles
            /\ nsp' = nsp + 1
            /\ sp' = [sp EXCEPT ![nsp + 1] = wp[w]]
            /\ blocks' = [blocks EXCEPT ![wp[w]] = P1_incrementRef(@)]
            /\ ret' = Returned(nsp + 1, NULL, FALSE)
  /\ UNCHANGED <<tracking, dead, nup, up, impl, nwp, wp, nblk>>

(* ---- UniquePtr (src/unnamed/part_001 lines 5-67) ---- *)

UP_CloneError == "UniquePtr cannot be cloned or copied."

UP_get(u) == up[u]

UP_constructor(value) ==
  /\ impl = "P1" /\ nup < MaxUnique
  /\ nup' = nup + 1
  /\ up' = [up EXCEPT ![nup + 1] = value]
  /\ ret' = Void
  /\ UNCHANGED <<tracking, dead, locking, impl, nsp, sp, nwp, wp, nblk, blocks>>

UP_release(u) ==
  /\ impl = "P1" /\ u \in 1..nup
  /\ LET releasedValue == up[u]
     IN /\ up' = [up EXCEPT ![u] = NULL]
        /\ ret' = Returned(0, releasedValue, FALSE)
  /\ UNCHANGED <<tracking, dead, locking, impl, nsp, sp, nwp, wp, nblk, blocks, nup>>

UP_reset(u, newValue) ==
  /\ impl = "P1" /\ u \in 1..nup
  /\ up' = [up EXCEPT ![u] = newValue]
  /\ ret' = Void
  /\ UNCHANGED <<tracking, dead, locking, impl, nsp, sp, nwp, wp, nblk, blocks, nup>>

(* move() that hands the value to the new instance and keeps it as well *)
UP_move_KeepsValue(u) ==
  /\ impl = "P1" /\ u \in 1..nup /\ nup < MaxUnique
  /\ nup' = nup + 1
  /\ up' = [up EXCEPT ![nup + 1] = up[u]]
  /\ ret' = Returned(nup + 1, NULL, FALSE)
  /\ UNCHANGED <<tracking, dead, locking, impl, nsp, sp, nwp, wp, nblk, blocks>>

(* ret.h is the new instance move() returns *)
UP_move(u) ==
  /\ impl = "P1" /\ u \in 1..nup /\ nup < MaxUnique
  /\ nup' = nup + 1
  /\ up' = [up EXCEPT ![nup + 1] = up[u], ![u] = NULL]
  /\ ret' = Returned(nup + 1, NULL, FALSE)
  /\ UNCHANGED <<tracking, dead, locking, impl, nsp, sp, nwp, wp, nblk, blocks>>

(* toJSON() that serialises the held value instead of raising *)
UP_toJSON_ReturnsValue(u) ==
  /\ impl = "P1" /\ u \in 1..nup
  /\ ret' = Returned(0, up[u], FALSE)
  /\ UNCHANGED <<tracking, dead, locking, impl, nsp, sp, nwp, wp, nblk, blocks, nup, up>>

(* ret.v is the message of the Error raised *)
UP_toJSON(u) ==
  /\ impl = "P1" /\ u \in 1..nup
  /\ ret' = Returned(0, UP_CloneError, TRUE)
  /\ UNCHANGED <<tracking, dead, locking, impl, nsp, sp, nwp, wp, nblk, blocks, nup, up>>

UP_valueOf(u) ==
  /\ impl = "P1" /\ u \in 1..nup
  /\ ret' = Returned(0, UP_CloneError, TRUE)
  /\ UNCHANGED <<tracking, dead, locking, impl, nsp, sp, nwp, wp, nblk, blocks, nup, up>>

(* every public operation of SharedPtr and WeakPtr, destructors that return *)
Next ==
  \/ SP_constructorEmpty
  \/ \E v \in Values, d \in NoThrow : SP_make(v, d)
  \/ \E h \in Handles : SP_fromSharedPtr(h)
  \/ \E h \in Handles, v \in Values \cup {NULL}, d \in NoThrow : SP_reset(h, v, d)
  \/ \E h \in Handles, o \in Handles : SP_swap(h, o)
  \/ \E h \in Handles : SP_release(h)
  \/ \E h \in Handles : SP_destroy(h)
  \/ \E h \in Handles : SP_WeakPtr(h)
  \/ \E w \in Weaks : SP_WeakReset(w)
  \/ \E w \in Weaks : SP_WeakDestroy(w)
  \/ \E w \in Weaks : SP_lock(w)
  \/ P1_constructorEmpty
  \/ \E v \in Values, d \in NoThrow : P1_make(v, d)
  \/ \E h \in Handles : P1_fromSharedPtr(h)
  \/ \E h \in Handles, v \in Values \cup {NULL}, d \in NoThrow : P1_reset(h, v, d)
  \/ \E h \in Handles, o \in Handles : P1_swap(h, o)
  \/ \E h \in Handles : P1_release(h)
  \/ \E h \in Handles : P1_destroy(h)
  \/ \E h \in 0..MaxHandles : P1_WeakPtr(h)
  \/ \E w \in Weaks : P1_WeakReset(w)
  \/ \E w \in Weaks : P1_lock(w)

Spec == Init /\ [][Next]_vars

(* make, fromSharedPtr, destroy() and reset() only *)
NextDerive ==
  \/ \E v \in Values, d \in NoThrow : SP_make(v, d)
  \/ \E h \in Handles : SP_fromSharedPtr(h)
  \/ \E h \in Handles : SP_reset(h, NULL, "none")
  \/ \E h \in Handles : SP_destroy(h)
  \/ \E v \in Values, d \in NoThrow : P1_make(v, d)
  \/ \E h \in Handles : P1_fromSharedPtr(h)
  \/ \E h \in Handles : P1_reset(h, NULL, "none")
  \/ \E h \in Handles : P1_destroy(h)

SpecDerive == Init /\ [][NextDerive]_vars

TypeOK ==
  /\ impl \in Impls
  /\ nsp \in 0..MaxHandles /\ nwp \in 0..MaxWeak /\ nblk \in 0..MaxBlocks
  /\ \A h \in Handles : sp[h] \in 0..nblk /\ (h > nsp => sp[h] = 0)
  /\ \A w \in Weaks : wp[w] \in 0..nblk /\ (w > nwp => wp[w] = 0)
  /\ locking \in 0..nwp
  /\ tracking \in BOOLEAN
  /\ dead \subseteq 1..nsp
  /\ nup \in 0..MaxUnique
  /\ \A u \in Uniques : up[u] \in Values \cup {NULL} /\ (u > nup => up[u] = NULL)

(* make, fromSharedPtr, destroy(), reset() and the WeakPtr operations *)
NextWeak ==
  \/ \E v \in Values, d \in NoThrow : SP_make(v, d)
  \/ \E h \in Handles : SP_fromSharedPtr(h)
  \/ \E h \in Handles : SP_reset(h, NULL, "none")
  \/ \E h \in Handles : SP_destroy(h)
  \/ \E h \in Handles : SP_WeakPtr(h)
  \/ \E w \in Weaks : SP_WeakReset(w)
  \/ \E w \in Weaks : SP_WeakDestroy(w)
  \/ \E w \in Weaks : SP_lock(w)
  \/ \E v \in Values, d \in NoThrow : P1_make(v, d)
  \/ \E h \in Handles : P1_fromSharedPtr(h)
  \/ \E h \in Handles : P1_reset(h, NULL, "none")
  \/ \E h \in Handles : P1_destroy(h)
  \/ \E h \in 0..MaxHandles : P1_WeakPtr(h)
  \/ \E w \in Weaks : P1_WeakReset(w)
  \/ \E w \in Weaks : P1_lock(w)

SpecWeak == Init /\ [][NextWeak]_vars

(* the value the first UniquePtr is constructed with *)
Owned == "v1"

InitUnique == Init /\ impl = "P1"

(* one UniquePtr constructed with Owned, then move(), release(), reset()    *)
(* with any other value or none, toJSON() and valueOf() on every instance   *)
(* of the move chain                                                        *)
NextUnique ==
  \/ nup = 0 /\ UP_constructor(Owned)
  \/ \E u \in Uniques : UP_release(u)
  \/ \E u \in Uniques : \E newValue \in (Values \cup {NULL}) \ {Owned} : UP_reset(u, newValue)
  \/ \E u \in Uniques : UP_move(u)
  \/ \E u \in Uniques : UP_toJSON(u)
  \/ \E u \in Uniques : UP_valueOf(u)

SpecUnique == InitUnique /\ [][NextUnique]_vars

(* make, fromSharedPtr, reset() and destroy() where the cleanup callback    *)
(* may be absent, return, or raise                                          *)
Destructors == {"none", "ok", "throws"}

NextThrow ==
  \/ \E v \in Values, d \in Destructors : SP_make(v, d)
  \/ \E h \in Handles : SP_fromSharedPtr(h)
  \/ \E h \in Handles : SP_reset(h, NULL, "none")
  \/ \E h \in Handles : SP_destroy(h)
  \/ \E v \in Values, d \in Destructors : P1_make(v, d)
  \/ \E h \in Handles : P1_fromSharedPtr(h)
  \/ \E h \in Handles : P1_reset(h, NULL, "none")
  \/ \E h \in Handles : P1_destroy(h)

SpecThrow == Init /\ [][NextThrow]_vars

(* make, fromSharedPtr, destroy() and the WeakPtr operations, where the     *)
(* two steps of lock() may have other handles' operations between them      *)
NextRace ==
  \/ \E v \in Values, d \in NoThrow : SP_make(v, d)
  \/ \E h \in Handles : SP_fromSharedPtr(h)
  \/ \E h \in Handles : SP_destroy(h)
  \/ \E h \in Handles : SP_WeakPtr(h)
  \/ \E w \in Weaks : SP_WeakReset(w)
  \/ \E w \in Weaks : SP_lockCheck(w)
  \/ \E w \in Weaks : SP_lockIncrement(w)
  \/ \E v \in Values, d \in NoThrow : P1_make(v, d)
  \/ \E h \in Handles : P1_fromSharedPtr(h)
  \/ \E h \in Handles : P1_destroy(h)
  \/ \E h \in 0..MaxHandles : P1_WeakPtr(h)
  \/ \E w \in Weaks : P1_WeakReset(w)
  \/ \E w \in Weaks : P1_lockCheck(w)
  \/ \E w \in Weaks : P1_lockIncrement(w)

SpecRace == Init /\ [][NextRace]_vars

(* ---- ControlBlock used directly, as through getControlBlock() ---- *)

ControlBlock_constructor(value, destructor) ==
  /\ nblk < MaxBlocks
  /\ nblk' = nblk + 1
  /\ blocks' = [blocks EXCEPT ![nblk + 1] =
                  IF impl = "SP" THEN SP_ControlBlock(value, destructor)
                                 ELSE P1_ControlBlock(value, destructor)]
  /\ ret' = Void
  /\ UNCHANGED <<tracking, dead, locking, nup, up, impl, nsp, sp, nwp, wp>>

ControlBlock_incrementRef(b) ==
  /\ b \in 1..nblk /\ blocks[b].referenceCount < MaxHandles
  /\ blocks' = [blocks EXCEPT ![b] =
                  IF impl = "SP" THEN SP_incrementRef(@) ELSE P1_incrementRef(@)]
  /\ ret' = Void
  /\ UNCHANGED <<tracking, dead, locking, nup, up, impl, nsp, sp, nwp, wp, nblk>>

(* ret.v is the boolean decrementRef() returns *)
ControlBlock_decrementRef(b) ==
  /\ b \in 1..nblk /\ blocks[b].referenceCount > -MaxUnderflow
  /\ blocks[b].calls < MaxCalls
  /\ LET r == IF impl = "SP" THEN SP_decrementRef(blocks[b])
                             ELSE P1_decrementRef(blocks[b])
     IN /\ blocks' = [blocks EXCEPT ![b] = r.cb]
        /\ ret' = Returned(0, IF r.threw THEN NULL
                              ELSE IF r.ret THEN "true" ELSE "false", r.threw)
  /\ UNCHANGED <<tracking, dead, locking, nup, up, impl, nsp, sp, nwp, wp, nblk>>

ControlBlock_incrementWeak(b) ==
  /\ b \in 1..nblk /\ blocks[b].weakCount < MaxWeak
  /\ blocks' = [blocks EXCEPT ![b] =
                  IF impl = "SP" THEN SP_incrementWeak(@) ELSE P1_incrementWeak(@)]
  /\ ret' = Void
  /\ UNCHANGED <<tracking, dead, locking, nup, up, impl, nsp, sp, nwp, wp, nblk>>

ControlBlock_decrementWeak(b) ==
  /\ b \in 1..nblk /\ blocks[b].weakCount > -MaxUnderflow
  /\ blocks' = [blocks EXCEPT ![b] =
                  IF impl = "SP" THEN SP_decrementWeak(@) ELSE P1_decrementWeak(@)]
  /\ ret' = Void
  /\ UNCHANGED <<tracking, dead, locking, nup, up, impl, nsp, sp, nwp, wp, nblk>>

NextBlock ==
  \/ \E v \in Values, d \in Destructors : ControlBlock_constructor(v, d)
  \/ \E b \in Blocks : ControlBlock_incrementRef(b)
  \/ \E b \in Blocks : ControlBlock_decrementRef(b)
  \/ \E b \in Blocks : ControlBlock_incrementWeak(b)
  \/ \E b \in Blocks : ControlBlock_decrementWeak(b)

SpecBlock == Init /\ [][NextBlock]_vars

(* One program run against either implementation: make, fromSharedPtr,     *)
(* reset(value), reset(), destroy() and new WeakPtr(ptr) on handles on      *)
(* which reset() without a value and destroy() have not been called, and   *)
(* reset() and lock() on weak pointers.  No release(), no swap().  The      *)
(* cleanup callback may be absent, return, or raise.                        *)
InitEquiv ==
  /\ impl \in Impls
  /\ nsp = 0
  /\ sp = [h \in Handles |-> 0]
  /\ nwp = 0
  /\ wp = [w \in Weaks |-> 0]
  /\ nblk = 0
  /\ blocks = [b \in Blocks |-> NoBlock]
  /\ ret = Void
  /\ nup = 0
  /\ up = [u \in Uniques |-> NULL]
  /\ locking = 0
  /\ tracking = TRUE
  /\ dead = {}

NextEquiv ==
  \/ \E v \in Values, d \in Destructors : SP_make(v, d)
  \/ \E h \in Handles \ dead : SP_fromSharedPtr(h)
  \/ \E h \in Handles \ dead : \E v \in Values, d \in Destructors : SP_reset(h, v, d)
  \/ \E h \in Handles \ dead : SP_reset(h, NULL, "none")
  \/ \E h \in Handles \ dead : SP_destroy(h)
  \/ \E h \in Handles \ dead : SP_WeakPtr(h)
  \/ \E w \in Weaks : SP_WeakReset(w)
  \/ \E w \in Weaks : SP_lock(w)
  \/ \E v \in Values, d \in Destructors : P1_make(v, d)
  \/ \E h \in Handles \ dead : P1_fromSharedPtr(h)
  \/ \E h \in Handles \ dead : \E v \in Values, d \in Destructors : P1_reset(h, v, d)
  \/ \E h \in Handles \ dead : P1_reset(h, NULL, "none")
  \/ \E h \in Handles \ dead : P1_destroy(h)
  \/ \E h \in Handles \ dead : P1_WeakPtr(h)
  \/ \E w \in Weaks : P1_WeakReset(w)
  \/ \E w \in Weaks : P1_lock(w)

SpecEquiv == InitEquiv /\ [][NextEquiv]_vars


(* ================================ claims ================================ *)

(* the SharedPtr handles whose controlBlock is block b *)
Attached(b) == {h \in 1..nsp : sp[h] = b}

(* a step that is h.destroy() or h.reset() with no value *)
DestroyOrReset(h) ==
  \/ SP_destroy(h) \/ SP_reset(h, NULL, "none")
  \/ P1_destroy(h) \/ P1_reset(h, NULL, "none")

(* a step that is h.reset() with no value *)
ResetNoValue(h) == SP_reset(h, NULL, "none") \/ P1_reset(h, NULL, "none")

(* C1: after any sequence of make / fromSharedPtr / destroy() / reset(),    *)
(* useCount() on every attached handle is the number of SharedPtr handles   *)
(* attached to its block, and get() is the value the block was made with.   *)
C1_UseCountIsAttached ==
  \A h \in 1..nsp : sp[h] # 0 =>
    /\ impl = "SP" => /\ SP_useCount(h) = Cardinality(Attached(sp[h]))
                      /\ SP_get(h) = blocks[sp[h]].value
    /\ impl = "P1" => /\ P1_useCount(h) = Cardinality(Attached(sp[h]))
                      /\ P1_get(h) = blocks[sp[h]].value

(* C2: destroy() / reset() of a handle never invokes the destructor of its  *)
(* block while a different handle is attached to that block.                *)
C2_NoCleanupWhileShared ==
  [][\A h \in Handles : \A b \in Blocks :
       (/\ DestroyOrReset(h)
        /\ sp[h] = b
        /\ \E g \in 1..nsp : g # h /\ sp[g] = b)
       => blocks'[b].calls = blocks[b].calls]_vars

(* C3: the destructor of a block is invoked at most once, whatever the      *)
(* sequence of handle operations.                                           *)
C3_CleanupAtMostOnce == \A b \in Blocks : blocks[b].calls <= 1

(* C4: destroy() / reset() of the last handle attached to a block invokes   *)
(* the block's destructor (if it has one) in that call, with the managed    *)
(* value, and the destructor was not invoked before.                        *)
C4_CleanupOnLastDestroy ==
  [][\A h \in Handles : \A b \in Blocks :
       (/\ DestroyOrReset(h)
        /\ Attached(b) = {h}
        /\ blocks[b].destructor # "none")
       => /\ blocks[b].calls = 0
          /\ blocks'[b].calls = 1
          /\ blocks'[b].arg = blocks[b].value]_vars

(* C5: release() on an attached handle returns the managed value, leaves    *)
(* the handle empty and invokes no destructor.                              *)
C5_ReleaseNoCleanup ==
  [][\A h \in Handles :
       ((SP_release(h) \/ P1_release(h)) /\ sp[h] # 0)
       => /\ ret'.v = blocks[sp[h]].value
          /\ sp'[h] = 0
          /\ \A b \in Blocks : blocks'[b].calls = blocks[b].calls]_vars

(* C6: a WeakPtr attached to a block is not expired while a SharedPtr is    *)
(* attached to the block, and is expired right after destroy() / reset() of *)
(* the last attached SharedPtr.                                             *)
C6_ExpiredIffNoOwner ==
  [][\A w \in 1..nwp' : \A b \in Blocks : wp'[w] = b =>
       /\ (\E h \in 1..nsp' : sp'[h] = b) =>
            /\ impl = "SP" => ~SP_expired(w)'
            /\ impl = "P1" => ~P1_expired(w)'
       /\ \A h \in Handles :
            (DestroyOrReset(h) /\ Attached(b) = {h})
            => /\ impl = "SP" => SP_expired(w)'
               /\ impl = "P1" => P1_expired(w)']_vars

(* C7: lock() on a WeakPtr that is not expired returns a new SharedPtr on   *)
(* the WeakPtr's block whose get() is the block's value, and raises that    *)
(* block's referenceCount - the useCount() of every handle on it - by       *)
(* exactly 1 with weakCount and every other block unchanged; lock() on an   *)
(* expired WeakPtr returns null and changes no handle and no count.         *)
C7_LockCounts ==
  [][\A w \in Weaks : \A n \in 0..MaxHandles :
       ((SP_lock(w) \/ P1_lock(w)) /\ ret'.h = n) =>
         LET b == wp[w]
             wasExpired == \/ impl = "SP" /\ SP_expired(w)
                           \/ impl = "P1" /\ P1_expired(w)
         IN IF wasExpired
              THEN n = 0 /\ blocks' = blocks /\ sp' = sp /\ nsp' = nsp
              ELSE /\ n = nsp + 1 /\ nsp' = nsp + 1
                   /\ impl = "SP" => SP_isValid(n)' /\ SP_get(n)' = blocks[b].value
                   /\ impl = "P1" => P1_isValid(n)' /\ P1_get(n)' = blocks[b].value
                   /\ blocks'[b].referenceCount = blocks[b].referenceCount + 1
                   /\ blocks'[b].weakCount = blocks[b].weakCount
                   /\ \A h \in 1..nsp :
                        /\ sp'[h] = sp[h]
                        /\ impl = "SP" /\ sp[h] = b => SP_useCount(h)' = SP_useCount(h) + 1
                        /\ impl = "P1" /\ sp[h] = b => P1_useCount(h)' = P1_useCount(h) + 1
                   /\ \A c \in Blocks \ {b} : blocks'[c] = blocks[c]]_vars

(* C7 witness: a lock() has just returned a SharedPtr on a block that       *)
(* another SharedPtr holds too.                                             *)
C7_Witness ==
  /\ ret.h # 0
  /\ sp[ret.h] # 0
  /\ \E w \in 1..nwp : wp[w] = sp[ret.h]
  /\ Cardinality(Attached(sp[ret.h])) >= 2
  /\ blocks[sp[ret.h]].referenceCount = 2

(* C8: after destroy() or reset() on an attached handle the handle is       *)
(* empty: isValid() false, get() null, useCount() 0.                        *)
C8_EmptyAfterDestroy ==
  [][\A h \in Handles :
       (DestroyOrReset(h) /\ sp[h] # 0) =>
         /\ impl = "SP" => /\ ~SP_isValid(h)'
                           /\ SP_get(h)' = NULL
                           /\ SP_useCount(h)' = 0
         /\ impl = "P1" => /\ ~P1_isValid(h)'
                           /\ P1_get(h)' = NULL
                           /\ P1_useCount(h)' = 0]_vars

(* C9: swap between two handles attached to different blocks exchanges the  *)
(* attachments and the get() values; each block keeps its count, so each    *)
(* side's useCount() is that of the block it now holds; no destructor is    *)
(* invoked.                                                                 *)
C9_SwapExchanges ==
  [][\A h \in Handles : \A o \in Handles :
       (/\ SP_swap(h, o) \/ P1_swap(h, o)
        /\ sp[h] # 0 /\ sp[o] # 0 /\ sp[h] # sp[o]) =>
         /\ sp'[h] = sp[o]
         /\ sp'[o] = sp[h]
         /\ impl = "SP" => /\ SP_get(h)' = SP_get(o)
                           /\ SP_get(o)' = SP_get(h)
                           /\ SP_useCount(h)' = SP_useCount(o)
                           /\ SP_useCount(o)' = SP_useCount(h)
         /\ impl = "P1" => /\ P1_get(h)' = P1_get(o)
                           /\ P1_get(o)' = P1_get(h)
                           /\ P1_useCount(h)' = P1_useCount(o)
                           /\ P1_useCount(o)' = P1_useCount(h)
         /\ blocks' = blocks]_vars

(* a reset() of h that changes a handle or a block *)
ResetChanges(h) == ResetNoValue(h) /\ <<sp, blocks>>' # <<sp, blocks>>

(* C10: reset() is idempotent: right after a reset() of a handle, and on an *)
(* empty handle, a reset() of that handle changes no block (counts,         *)
(* destructor invocations) and no handle.                                   *)
C10_ResetIdempotent ==
  [][\A h \in Handles :
       /\ ResetNoValue(h) => ~(ENABLED ResetChanges(h))'
       /\ (ResetNoValue(h) /\ sp[h] = 0) => <<sp, blocks>>' = <<sp, blocks>>]_vars

(* C11: in part_001, release() does not decrement: every block, so every    *)
(* count, is as before the call, and every other handle keeps its           *)
(* attachment, useCount() and get().                                        *)
C11_ReleaseNoDecrement ==
  [][\A h \in Handles :
       (P1_release(h) /\ sp[h] # 0) =>
         /\ blocks'[sp[h]].referenceCount = blocks[sp[h]].referenceCount
         /\ blocks' = blocks
         /\ \A g \in (1..nsp) \ {h} :
              /\ sp'[g] = sp[g]
              /\ P1_useCount(g)' = P1_useCount(g)
              /\ P1_get(g)' = P1_get(g)]_vars

(* C11 witness: part_001, a release() has just returned the value of a      *)
(* block that one other handle holds and whose count still is 2.            *)
C11_Witness ==
  /\ impl = "P1" /\ ret.v # NULL /\ nblk = 1
  /\ \E b \in 1..nblk :
       /\ blocks[b].value = ret.v
       /\ blocks[b].referenceCount = 2
       /\ Cardinality(Attached(b)) = 1

C14_SwapWithEmpty ==
  [][\A h, o \in Handles :
       ((SP_swap(h, o) \/ P1_swap(h, o)) /\ h # o /\ (sp[h] = 0) # (sp[o] = 0)) =>
         LET full == IF sp[h] # 0 THEN h ELSE o
             empty == IF sp[h] # 0 THEN o ELSE h
             b == sp[full]
         IN /\ sp'[full] = 0
            /\ sp'[empty] = b
            /\ blocks'[b].value = blocks[b].value
            /\ blocks'[b].referenceCount = blocks[b].referenceCount]_vars

(* C15: in both implementations every operation on an empty SharedPtr is a  *)
(* safe no-op or a no-value result: get() is null, isValid() false,         *)
(* useCount() 0, release() returns null, reset() and destroy() raise        *)
(* nothing, fromSharedPtr(empty) yields an empty handle; none of them        *)
(* changes a block or the attachment of any existing handle.                *)
C15_EmptyHandleSafe ==
  [][\A h \in Handles :
       (h <= nsp /\ sp[h] = 0) =>
         /\ SP_get(h) = NULL /\ P1_get(h) = NULL
         /\ ~SP_isValid(h) /\ ~P1_isValid(h)
         /\ SP_useCount(h) = 0 /\ P1_useCount(h) = 0
         /\ (SP_release(h) \/ P1_release(h) \/ DestroyOrReset(h)) =>
              /\ ret' = Void
              /\ <<nsp, sp, nblk, blocks>>' = <<nsp, sp, nblk, blocks>>
         /\ (SP_fromSharedPtr(h) \/ P1_fromSharedPtr(h)) =>
              /\ ~ret'.threw
              /\ nsp' = nsp + 1
              /\ sp'[nsp'] = 0
              /\ <<sp, nblk, blocks>>' = <<sp, nblk, blocks>>]_vars

(* C15 witness: all handles exist, one is empty, and next to it a block is  *)
(* alive whose count is the number of handles attached to it and whose      *)
(* cleanup has not run.                                                     *)
C15_Witness ==
  /\ nsp = MaxHandles
  /\ \E h \in 1..nsp : sp[h] = 0
  /\ \E b \in 1..nblk :
       /\ Attached(b) # {}
       /\ blocks[b].referenceCount = Cardinality(Attached(b))
       /\ blocks[b].calls = 0

(* After(A, P): every A step from the current state ends in a state where   *)
(* P holds.                                                                 *)
After(A, P) == ~ENABLED (A /\ ~P')

Readme_useCount(h) == IF impl = "SP" THEN SP_useCount(h) ELSE P1_useCount(h)
Readme_expired(w) == IF impl = "SP" THEN SP_expired(w) ELSE P1_expired(w)

(* The state right after the README example's first four statements:       *)
(* shared1 and shared2 are handles 1 and 2, weak1 is WeakPtr 1 and lock()   *)
(* has just returned locked as handle 3, all on the one block, which counts *)
(* the three handles and the one WeakPtr and whose destructor has not run.  *)
Readme_locked ==
  /\ nsp = 3 /\ nblk = 1 /\ nwp = 1
  /\ sp[1] = 1 /\ sp[2] = 1 /\ sp[3] = 1 /\ wp[1] = 1
  /\ ret.h = 3
  /\ blocks[1].referenceCount = 3 /\ blocks[1].weakCount = 1
  /\ blocks[1].destructor = "ok" /\ blocks[1].calls = 0

(* C16: the README's SharedPtr example (shared1 made with a destructor;     *)
(* shared2 = fromSharedPtr(shared1); weak1 = new WeakPtr(shared1);          *)
(* locked = weak1.lock(), never reset; shared1.reset(); shared2.reset()):   *)
(* shared2.useCount() is 1 after shared1.reset(), shared2.reset() calls the *)
(* destructor, and weak1.expired() is true at the end.                      *)
C16_ReadmeExample ==
  [][(Readme_locked /\ ResetNoValue(1)) =>
       (/\ Readme_useCount(2) = 1
        /\ After(ResetNoValue(2),
             /\ blocks[1].calls = 1
             /\ Readme_expired(1)))']_vars

(* C17: in shared-ptr.ts WeakPtr.isValid() is true exactly when a block is   *)
(* attached and its reference count is above 0, and WeakPtr.get() is the    *)
(* managed value when isValid() and null otherwise; both report invalid /   *)
(* null after the last SharedPtr of the block is destroyed, and after       *)
(* WeakPtr.reset() even while a SharedPtr is still attached.                *)
C17_WeakValidity ==
  [][impl = "SP" =>
       /\ \A w \in 1..nwp :
            /\ SP_WeakIsValid(w) <=> (wp[w] # 0 /\ blocks[wp[w]].referenceCount > 0)
            /\ SP_WeakGet(w) = IF wp[w] # 0 /\ blocks[wp[w]].referenceCount > 0
                                 THEN blocks[wp[w]].value ELSE NULL
       /\ \A h \in Handles :
            ((SP_destroy(h) \/ SP_reset(h, NULL, "none"))
               /\ sp[h] # 0 /\ Attached(sp[h]) = {h}) =>
              \A w \in 1..nwp :
                wp[w] = sp[h] => ~SP_WeakIsValid(w)' /\ SP_WeakGet(w)' = NULL
       /\ \A w \in Weaks :
            (SP_WeakReset(w) \/ SP_WeakDestroy(w)) =>
              ~SP_WeakIsValid(w)' /\ SP_WeakGet(w)' = NULL]_vars

(* C17 witness: shared-ptr.ts, a WeakPtr is still attached to a block whose *)
(* last SharedPtr is gone: the count is 0 and the cleanup has run.          *)
C17_Witness ==
  /\ impl = "SP" /\ nblk = 1
  /\ \E w \in 1..nwp :
       /\ wp[w] # 0
       /\ Attached(wp[w]) = {}
       /\ blocks[wp[w]].referenceCount = 0
       /\ blocks[wp[w]].calls = 1
       /\ blocks[wp[w]].weakCount = 1

(* C18: UniquePtr single owner. Starting from one UniquePtr constructed     *)
(* with value v (Owned), after any sequence of move(), release() and        *)
(* reset() with values other than v on the instances of the move chain, at  *)
(* most one UniquePtr has get() = v; move() returns a new instance holding  *)
(* the source's value and leaves the source's get() null; release()         *)
(* returns the value and leaves get() null.                                 *)
C18_SingleOwner ==
  [][/\ (Cardinality({u \in 1..nup : UP_get(u) = Owned}) <= 1)'
     /\ \A u \in Uniques :
          /\ UP_move(u) =>
               /\ ret'.h = nup + 1 /\ nup' = nup + 1
               /\ UP_get(nup)' = UP_get(u)
               /\ UP_get(u)' = NULL
          /\ UP_release(u) =>
               /\ ret'.v = UP_get(u) /\ ~ret'.threw
               /\ UP_get(u)' = NULL]_vars

(* C18 witness: move() has just returned an instance other than the first,  *)
(* it holds v and every earlier instance of the chain is empty.             *)
C18_Witness ==
  /\ ret.h > 1 /\ ret.h = nup
  /\ UP_get(ret.h) = Owned
  /\ \A u \in 1..(nup - 1) : UP_get(u) = NULL

(* C19: UniquePtr.toJSON() and UniquePtr.valueOf() always fail with the     *)
(* error 'UniquePtr cannot be cloned or copied.', whatever value is held    *)
(* (null included), and the held value is unchanged after the failure.      *)
C19_NoCloning ==
  [][\A u \in Uniques :
       (UP_toJSON(u) \/ UP_valueOf(u)) =>
         /\ ret'.threw
         /\ ret'.v = "UniquePtr cannot be cloned or copied."
         /\ \A t \in Uniques : UP_get(t)' = UP_get(t)
         /\ nup' = nup]_vars

(* C19 witness: the call has just failed with that error while one instance *)
(* holds v and another holds nothing.                                       *)
C19_Witness ==
  /\ ret.threw /\ ret.v = UP_CloneError
  /\ \E u, t \in 1..nup : UP_get(u) = Owned /\ UP_get(t) = NULL

(* C20: in both implementations, once a block's count has reached 0 it      *)
(* never becomes positive again: no operation on any handle and no lock()   *)
(* raises the count of a constructed block from 0, and lock() on a WeakPtr  *)
(* of such a block returns null.                                            *)
C20_NoResurrection ==
  [][/\ \A b \in 1..nblk :
          blocks[b].referenceCount = 0 => blocks'[b].referenceCount <= 0
     /\ \A w \in Weaks :
          ((SP_lock(w) \/ P1_lock(w)) /\ wp[w] # 0 /\ blocks[wp[w]].referenceCount = 0)
            => ret'.h = 0 /\ nsp' = nsp]_vars

(* C21: in both implementations every block's count is at least 0 in every  *)
(* state reachable by public handle operations.                             *)
C21_CountNonNegative == \A b \in Blocks : blocks[b].referenceCount >= 0

(* C22: in both implementations, whenever a SharedPtr is valid between      *)
(* operations, its block's count is at least 1 and the block's cleanup has  *)
(* not been invoked.                                                        *)
C22_ValidMeansOwned ==
  \A h \in 1..nsp :
    (IF impl = "SP" THEN SP_isValid(h) ELSE P1_isValid(h)) =>
      /\ blocks[sp[h]].referenceCount >= 1
      /\ blocks[sp[h]].calls = 0

(* C23: in both implementations, if the cleanup callback raises when        *)
(* invoked from reset()/destroy(), the error reaches the caller of that     *)
(* reset()/destroy() and the block's count is 0; afterwards the block is    *)
(* discarded: no later operation on any handle raises its count or invokes  *)
(* its cleanup again.                                                       *)
C23_RaisingCleanup ==
  [][/\ \A h \in Handles :
          (DestroyOrReset(h) /\ sp[h] # 0
             /\ blocks[sp[h]].destructor = "throws"
             /\ blocks[sp[h]].referenceCount = 1) =>
            /\ ret'.threw
            /\ blocks'[sp[h]].referenceCount = 0
     /\ \A b \in 1..nblk :
          (blocks[b].destructor = "throws" /\ blocks[b].calls >= 1) =>
            /\ blocks'[b].referenceCount <= blocks[b].referenceCount
            /\ blocks'[b].calls = blocks[b].calls]_vars

(* C24: in both implementations ControlBlock.decrementRef() called when the *)
(* count is already 0 fails with an error and leaves the count at 0, and    *)
(* decrementWeak() never takes weakCount below 0.                           *)
C24_NoUnderflow ==
  [][\A b \in Blocks :
       /\ (ControlBlock_decrementRef(b) /\ blocks[b].referenceCount = 0) =>
            /\ ret'.threw
            /\ blocks'[b].referenceCount = 0
       /\ ControlBlock_decrementWeak(b) => blocks'[b].weakCount >= 0]_vars

AttachedWeak(b) == {w \in 1..nwp : wp[w] = b}

(* C25: in both implementations, after any WeakPtr constructions and        *)
(* WeakPtr.reset()/destroy() calls interleaved with arbitrary SharedPtr     *)
(* operations, each block's weakCount is the number of WeakPtr handles      *)
(* attached to it, and is never negative.                                   *)
C25_WeakCountIsAttached ==
  \A b \in Blocks :
    /\ blocks[b].weakCount = Cardinality(AttachedWeak(b))
    /\ blocks[b].weakCount >= 0

(* C25 witness: a WeakPtr is attached to a block that no SharedPtr owns any *)
(* more (count 0), next to a second block without WeakPtr; the first        *)
(* block's weakCount is 1.                                                  *)
C25_Witness ==
  /\ nblk = 2
  /\ \E w \in 1..nwp :
       /\ wp[w] = 1
       /\ blocks[1].weakCount = 1
       /\ blocks[1].referenceCount = 0
       /\ blocks[2].weakCount = 0
       /\ blocks[2].referenceCount >= 1

WeakConstruct ==
  \/ \E ptr \in Handles : SP_WeakPtr(ptr)
  \/ \E shared \in 0..MaxHandles : P1_WeakPtr(shared)

WeakResetOrDestroy(w) == SP_WeakReset(w) \/ SP_WeakDestroy(w) \/ P1_WeakReset(w)

(* C26: in both implementations constructing a WeakPtr and WeakPtr.reset()  *)
(* change only weakCount: every block's count is unchanged and no cleanup   *)
(* is invoked by them; and weak handles never keep the value alive: the     *)
(* cleanup fires when the last SharedPtr of a block is destroyed even if    *)
(* weakCount is above 0.                                                    *)
C26_WeakFrame ==
  [][/\ (WeakConstruct \/ \E w \in Weaks : WeakResetOrDestroy(w)) =>
          /\ sp' = sp /\ nsp' = nsp /\ nblk' = nblk
          /\ \A b \in Blocks :
               /\ blocks'[b].referenceCount = blocks[b].referenceCount
               /\ blocks'[b].calls = blocks[b].calls
               /\ blocks'[b].value = blocks[b].value
     /\ \A h \in Handles : \A b \in Blocks :
          (/\ DestroyOrReset(h)
           /\ Attached(b) = {h}
           /\ blocks[b].weakCount > 0
           /\ blocks[b].destructor # "none")
          => blocks'[b].calls = blocks[b].calls + 1]_vars

LockReturnsNull(w) ==
  (SP_lock(w) \/ P1_lock(w)) /\ ret'.h = 0 /\ <<nsp, sp, blocks>>' = <<nsp, sp, blocks>>

(* C27: in both implementations WeakPtr.reset() is idempotent (a second     *)
(* call changes no count) and a reset WeakPtr never becomes attached again: *)
(* from then on expired() is true and lock() returns null, even while       *)
(* SharedPtr handles are still attached to the block.                       *)
C27_WeakResetFinal ==
  [][\A w \in Weaks :
       /\ WeakResetOrDestroy(w) =>
            /\ wp'[w] = 0
            /\ SP_expired(w)' /\ P1_expired(w)'
            /\ (~ENABLED (WeakResetOrDestroy(w) /\ <<wp, blocks>>' # <<wp, blocks>>))'
       /\ (w <= nwp /\ wp[w] = 0) =>
            /\ wp'[w] = 0
            /\ SP_expired(w) /\ P1_expired(w)
            /\ (SP_lock(w) \/ P1_lock(w)) => LockReturnsNull(w)]_vars

(* C27 witness: shared-ptr.ts, the only SharedPtr ever made is still        *)
(* attached to its block (count 1), and the WeakPtr constructed from it is  *)
(* detached, which only WeakPtr.reset()/destroy() does; weakCount is back   *)
(* to 0.                                                                    *)
C27_Witness ==
  /\ impl = "SP"
  /\ nsp = 1 /\ sp[1] = 1 /\ nblk = 1
  /\ nwp = 1 /\ wp[1] = 0
  /\ blocks[1].referenceCount = 1
  /\ blocks[1].weakCount = 0

(* C28: if the check and the increment inside WeakPtr.lock() are two steps  *)
(* that may interleave with another handle's destroy(), lock() can return a *)
(* SharedPtr attached to a block whose count had reached 0 and whose        *)
(* cleanup has already fired: the increment step does not look at the count *)
(* again, so when it runs on a block at count 0 it returns a new handle     *)
(* attached to that block and takes the count to 1, with the cleanup        *)
(* already run if there is one.                                             *)
C28_LockRace ==
  [][\A w \in Weaks :
       ((SP_lockIncrement(w) \/ P1_lockIncrement(w))
          /\ wp[w] # 0 /\ blocks[wp[w]].referenceCount = 0) =>
         /\ ret'.h = nsp + 1 /\ ~ret'.threw
         /\ sp'[nsp + 1] = wp[w]
         /\ blocks'[wp[w]].referenceCount = 1
         /\ blocks[wp[w]].destructor # "none" => blocks'[wp[w]].calls >= 1]_vars

(* C28 witness: lock() has just returned a handle, the only one attached to *)
(* its block, whose count is 1 and whose cleanup has already run.           *)
C28_Witness ==
  /\ ret.h # 0 /\ sp[ret.h] # 0
  /\ Attached(sp[ret.h]) = {ret.h}
  /\ blocks[sp[ret.h]].referenceCount = 1
  /\ blocks[sp[ret.h]].calls = 1

(* C29: in shared-ptr.ts, after any sequence of constructor/make,           *)
(* fromSharedPtr, reset, destroy, release, swap and WeakPtr.lock with       *)
(* cleanup callbacks that do not throw, every block's referenceCount is the *)
(* number of SharedPtr handles attached to it.                              *)
C29_CountIsAttachedInSP ==
  impl = "SP" =>
    \A b \in Blocks : SP_getRefCount(blocks[b]) = Cardinality(Attached(b))

(* C29 witness: shared-ptr.ts, lock() has just returned handle 3, the       *)
(* second handle on its block, next to a block that lost its only handle.   *)
C29_Witness ==
  /\ impl = "SP" /\ nblk = 2 /\ ret.h = 3
  /\ \E b \in 1..nblk :
       /\ sp[ret.h] = b
       /\ Cardinality(Attached(b)) = 2
       /\ SP_getRefCount(blocks[b]) = 2
  /\ \E b \in 1..nblk :
       /\ Attached(b) = {}
       /\ SP_getRefCount(blocks[b]) = 0

(* C30: the two implementations are observationally equivalent on every    *)
(* run of make, fromSharedPtr, reset(value), reset(), destroy() and the    *)
(* WeakPtr operations that never uses a handle again after reset() or      *)
(* destroy() of it.  Up to the first state where an observation differs    *)
(* the two implementations have made the same changes to every block and   *)
(* to every handle still in use, so in each state of such a run both       *)
(* implementations' observers must give the same answer: useCount() and    *)
(* get() of each handle still in use, expired() of each WeakPtr, and       *)
(* whether lock() returns a SharedPtr or null.                             *)
SP_lockSucceeds(w) == SP_WeakIsValid(w) /\ wp[w] # 0

P1_lockSucceeds(w) == ~(wp[w] = 0 \/ P1_getRefCount(blocks[wp[w]]) = 0)

C30_SameObservations ==
  /\ \A h \in (1..nsp) \ dead :
       SP_useCount(h) = P1_useCount(h) /\ SP_get(h) = P1_get(h)
  /\ \A w \in 1..nwp :
       SP_expired(w) = P1_expired(w) /\ SP_lockSucceeds(w) = P1_lockSucceeds(w)

(* C31: in part_001, after release() on the only SharedPtr attached to a    *)
(* block the block's count is still at least 1, so every WeakPtr attached   *)
(* to that block is not expired and every lock() of it returns a SharedPtr  *)
(* whose get() is the value release() returned.                             *)
C31_ReleaseKeepsBlockAlive ==
  [][\A h \in Handles : \A v \in Values :
       (P1_release(h) /\ sp[h] # 0 /\ Attached(sp[h]) = {h} /\ ret'.v = v) =>
         /\ blocks'[sp[h]].referenceCount >= 1
         /\ \A w \in AttachedWeak(sp[h]) :
              /\ ~P1_expired(w)'
              /\ After(P1_lock(w), ret.h # 0 /\ P1_get(ret.h) = v)']_vars

====
